---- MODULE Spec2Model ----
(***************************************************************************)
(* OAuth credential lifecycle of the QwenCode and GeminiCli providers      *)
(* (app/lib/modules/llm/providers/qwen-code.ts, gemini-cli.ts).            *)
(*                                                                         *)
(* Execution model: the providers run on a single-threaded event loop.     *)
(* One step of the model is one event-loop task: a call from outside, or   *)
(* the completion of one I/O operation, together with every continuation   *)
(* (promise reaction) that runs before the next task is taken.  Between    *)
(* two awaits that complete without I/O no other task can run, so such     *)
(* code is part of the same step.                                          *)
(***************************************************************************)
EXTENDS Integers, Sequences, FiniteSets, TLC

(* ------------------------------ bounds -------------------------------- *)

\* concurrent logical callers of one provider instance
NumCallers == 2

\* performTokenRefresh invocations started in one run
MaxRefresh == 2

\* ensureClient / callApiWithRetry invocations started in one run
MaxCalls == 3

\* advances of the clock in one run
MaxTicks == 1

\* half-width, in ms, of the window of times around the buffer boundary that
\* the validity harness enumerates
MaxSkew == 5

\* longest resource_url, in pieces, that the base URL harness enumerates
MaxUrlPieces == 3

(* --------------------------- basic values ----------------------------- *)

Procs == 1 .. NumCallers

\* a field that is absent, undefined or the empty string: every test the
\* code makes on such a field is a truthiness test
None == ""

\* null, for the object-valued slots (_credentials, _client, _oauthConfig)
Null == [null |-> TRUE]

Truthy(s) == s # None

\* Date.now() at construction, and the step of the clock
StartTime == 1000 * 1000
TickMs == 30 * 1000

Providers == {"qwen", "gemini"}

(* -------------------------- credential path --------------------------- *)

DefaultPath(prov) ==
    IF prov = "qwen" THEN "/home/.qwen/oauth_creds.json"
                     ELSE "/home/.gemini/oauth_creds.json"

\* the values a caller can pass for settings.baseUrl and serverEnv[apiTokenKey]
SettingsPaths == {None, "~/creds.json"}
EnvPaths == {None}

\* process.env[apiTokenKey]: not set in the modelled process
ProcessEnvPath == None

\* first truthy of settings.baseUrl, serverEnv[key], process.env[key]
OAuthPathOf(settingsPath, envPath) ==
    IF Truthy(settingsPath) THEN settingsPath
    ELSE IF Truthy(envPath) THEN envPath
    ELSE ProcessEnvPath

\* faulty variant: GeminiCli alone ignores the custom path
getCredentialPath_GeminiIgnoresCustom(prov, customPath) ==
    IF Truthy(customPath) /\ prov # "gemini"
        THEN IF customPath = "~/creds.json" THEN "/home/creds.json"
             ELSE customPath
        ELSE DefaultPath(prov)

\* getQwenCredentialPath / getGeminiCredentialPath
getCredentialPath(prov, customPath) ==
    IF Truthy(customPath)
        THEN IF customPath = "~/creds.json" THEN "/home/creds.json"  \* join(homedir, slice(2))
             ELSE customPath                                         \* resolve(absolute)
        ELSE DefaultPath(prov)

Paths == {DefaultPath("qwen"), DefaultPath("gemini"), "/home/creds.json", "/etc/creds.json"}

(* ------------------------- credential records ------------------------- *)

\* resource_url values, as sequences of URL pieces
DefaultBaseUrl == <<"https://", "dashscope.aliyuncs.com/compatible-mode", "/v1">>
NoUrl == <<>>

Cred(at, rt, tt, exp, url) ==
    [access_token |-> at, refresh_token |-> rt, token_type |-> tt,
     expiry_date |-> exp, resource_url |-> url]

\* tokens minted by the refresh endpoint for the k-th refresh request
AccessTokens == <<"at1", "at2", "at3", "at4">>
RefreshTokens == <<"rt1", "rt2", "rt3", "rt4">>

\* file contents: no file, text that is not JSON, or a JSON object
Missing == [kind |-> "missing"]
Garbage == [kind |-> "garbage"]
JsonFile(obj) == [kind |-> "json", obj |-> obj]

\* JSON.stringify(credentials, null, 2)
JSONStringify(credentials) == JsonFile(credentials)

\* what the credential file holds when the provider is constructed
InitialFiles ==
    {Missing, Garbage,
     JsonFile(Cred("at0", None, "Bearer", StartTime + 2 * TickMs, NoUrl)),
     JsonFile(Cred("at0", "rt0", "Bearer", StartTime, NoUrl)),
     JsonFile(Cred("at0", "rt0", "Bearer", StartTime + 2 * TickMs, <<"portal.qwen.ai">>))}

(* --------------------------- pure functions --------------------------- *)

TOKEN_REFRESH_BUFFER == 30 * 1000

\* faulty variant: no record passes for valid
isTokenValid_Never(credentials, t) == FALSE

\* faulty variant: every record passes for valid
isTokenValid_IgnoresExpiry(credentials, t) == TRUE

\* faulty variant: the comparison admits the boundary
isTokenValid_Inclusive(credentials, t) ==
    IF credentials.expiry_date = 0 THEN FALSE
    ELSE t <= credentials.expiry_date - TOKEN_REFRESH_BUFFER

\* isTokenValid(credentials), with Date.now() = t
isTokenValid(credentials, t) ==
    IF credentials.expiry_date = 0 THEN FALSE
    ELSE t < credentials.expiry_date - TOKEN_REFRESH_BUFFER

StartsWith(s, piece) == Len(s) > 0 /\ s[1] = piece
EndsWith(s, piece) == Len(s) > 0 /\ s[Len(s)] = piece

\* faulty variant: "/v1" is appended without looking at the end of the URL
getBaseUrl_AlwaysAppend(credentials) ==
    LET base == IF credentials.resource_url # NoUrl THEN credentials.resource_url
                ELSE DefaultBaseUrl
        withScheme == IF ~StartsWith(base, "http://") /\ ~StartsWith(base, "https://")
                      THEN <<"https://">> \o base ELSE base
    IN Append(withScheme, "/v1")

\* getBaseUrl(creds)
getBaseUrl(credentials) ==
    LET base == IF credentials.resource_url # NoUrl THEN credentials.resource_url
                ELSE DefaultBaseUrl
        withScheme == IF ~StartsWith(base, "http://") /\ ~StartsWith(base, "https://")
                      THEN <<"https://">> \o base ELSE base
    IN IF EndsWith(withScheme, "/v1") THEN withScheme ELSE Append(withScheme, "/v1")

\* faulty variant: only access_token is required
ValidFormat_AccessTokenOnly(obj) == Truthy(obj.access_token)

\* the check loadCredentials makes on the parsed object
ValidFormat(obj) == Truthy(obj.access_token) /\ Truthy(obj.refresh_token)

\* loadCredentials succeeds on this file content
Loadable(content) == content.kind = "json" /\ ValidFormat(content.obj)

\* the responses of the token endpoint that carry a successful status and no
\* error field, to the k-th request: the full response, one that omits
\* access_token, and one that carries only access_token and a lifetime no
\* longer than the refresh buffer
FullResponse(k) ==
    [ok |-> TRUE, error |-> None,
     access_token |-> AccessTokens[k], refresh_token |-> RefreshTokens[k],
     token_type |-> "MAC", expires_in |-> 60]

OkResponses(k) ==
    {FullResponse(k),
     [FullResponse(k) EXCEPT !.access_token = None],
     [FullResponse(k) EXCEPT !.refresh_token = None, !.token_type = None, !.expires_in = 30]}

\* faulty variant: the response's refresh_token is taken as it is, no fallback
NewCredentials_NoFallback(credentials, tokenData, t) ==
    [credentials EXCEPT
        !.access_token = tokenData.access_token,
        !.token_type = IF Truthy(tokenData.token_type) THEN tokenData.token_type ELSE "Bearer",
        !.refresh_token = tokenData.refresh_token,
        !.expiry_date = t + tokenData.expires_in * 1000]

\* newCredentials built by performTokenRefresh, with Date.now() = t
NewCredentials(credentials, tokenData, t) ==
    [credentials EXCEPT
        !.access_token = tokenData.access_token,
        !.token_type = IF Truthy(tokenData.token_type) THEN tokenData.token_type ELSE "Bearer",
        !.refresh_token = IF Truthy(tokenData.refresh_token) THEN tokenData.refresh_token
                          ELSE credentials.refresh_token,
        !.expiry_date = t + tokenData.expires_in * 1000]

\* faulty variant: the in-flight check is skipped
RefreshInProgress_Never(slotv) == FALSE

\* `if (this._refreshPromise)` in refreshAccessToken
RefreshInProgress(slotv) == slotv # 0

\* faulty variant: the started operation is not stored in the slot
SlotOnStart_NotStored(k) == 0

\* `this._refreshPromise = this.performTokenRefresh(credentials)`
SlotOnStart(k) == k

\* faulty variant: the slot is cleared on success only (no `finally`)
SlotAfterSettle_OnSuccessOnly(slotv, ok) == IF ok THEN 0 ELSE slotv

\* faulty variant: the slot is never cleared
SlotAfterSettle_NeverCleared(slotv, ok) == slotv

\* `finally { this._refreshPromise = null }`
SlotAfterSettle(slotv, ok) == 0

\* faulty variant: every failed call with a cached record is retried
ShouldRetry_AnyError(status, credentials) == status # 200 /\ credentials # Null

\* `error.status === 401 && this._credentials` in callApiWithRetry
ShouldRetry(status, credentials) == status = 401 /\ credentials # Null

\* faulty variant: apiCall is invoked again whatever the refresh yielded
AfterForcedRefresh_AlwaysRetry(ok) == "api2"

\* callApiWithRetry after `await this.refreshAccessToken(...)`: the refresh
\* error propagates, or apiCall is invoked again
AfterForcedRefresh(ok) == IF ok THEN "api2" ELSE "api_failed"

(* ------------------------------- state -------------------------------- *)

VARIABLES
    provider,     \* which of the two provider classes this instance is
    now,          \* Date.now()
    fs,           \* the file system: path -> file content
    initialized,  \* _initialized
    oauthPath,    \* _oauthPath
    creds,        \* _credentials
    slot,         \* _refreshPromise: 0 for null, else the refresh operation it holds
    ops,          \* every performTokenRefresh invocation so far, in order of start
    netCalls,     \* POST requests sent to the token endpoint so far
    oauthConfig,  \* _oauthConfig (GeminiCli)
    client,       \* _client (QwenCode)
    pc,           \* where each caller is suspended
    buf,          \* the text readFile has read for a caller's pending load
    waitOp,       \* the refresh operation a caller awaits, 0 for none
    call,         \* bookkeeping of each caller's current invocation
    calls,        \* invocations started so far
    lastSave,     \* how the most recent successful refresh's save ended
    handle,       \* clientPromise / isInitializing of the model handle
    fnArgs,       \* arguments of the pure function under test
    fnRes         \* its result

vars == <<provider, now, fs, initialized, oauthPath, creds, slot, ops, netCalls,
          oauthConfig, client, pc, buf, waitOp, call, calls, lastSave, handle,
          fnArgs, fnRes>>

NoErr == [kind |-> "none", status |-> 0, attempt |-> 0]
LoadError == [kind |-> "load", status |-> 0, attempt |-> 0]
RefreshError == [kind |-> "refresh", status |-> 0, attempt |-> 0]
ApiError(status, attempt) == [kind |-> "api", status |-> status, attempt |-> attempt]

\* thrown by getAuthenticatedClient: the wrapped failure of ensureClient /
\* ensureAuthenticated, and the rejection while another call initializes
AuthError == [kind |-> "auth", status |-> 0, attempt |-> 0]
InitInProgress == [kind |-> "initializing", status |-> 0, attempt |-> 0]

\* a caller that is not inside an invocation
Resting == {"idle", "done", "failed", "api_done", "api_failed", "models_done",
            "models_failed", "gen_failed"}

NoCall ==
    [kind |-> "none", ret |-> None, err |-> NoErr, apiCalls |-> 0, refreshReqs |-> 0,
     gotOp |-> 0, sawExpired |-> FALSE, settledAtStart |-> 0, firstStatus |-> 0,
     secondStatus |-> 0, hadCreds |-> FALSE, loads |-> 0, ensured |-> FALSE,
     models |-> <<>>, resp |-> Null]

Running(k) == ops[k].phase \in {"config", "post", "save"}
RunningOps == {k \in 1 .. Len(ops) : Running(k)}
SettledOps == {k \in 1 .. Len(ops) : ~Running(k)}

credPath == getCredentialPath(provider, oauthPath)

\* `let clientPromise = null; let isInitializing = false` in getModelInstance;
\* apiKey is the token the handle's GeminiCli client was created with, err the
\* error clientPromise is rejected with
NoHandleClient ==
    [clientPromise |-> "null", isInitializing |-> FALSE, apiKey |-> None, err |-> NoErr]

\* getAuthenticatedClient is suspended in ensureClient / ensureAuthenticated
HandlePending ==
    [handle EXCEPT !.isInitializing = TRUE,
                   !.clientPromise = IF provider = "qwen" THEN "pending" ELSE "null"]

\* getAuthenticatedClient after ensureClient / ensureAuthenticated settled:
\* QwenCode's clientPromise is the promise ensureClient returned, resolved or
\* rejected; GeminiCli's is set only after success, to the client created
\* with the token
HandleAfter(ok, result, err) ==
    IF provider = "qwen"
        THEN [clientPromise |-> IF ok THEN "resolved" ELSE "rejected",
              isInitializing |-> FALSE, apiKey |-> None,
              err |-> IF ok THEN NoErr ELSE err]
        ELSE [clientPromise |-> IF ok THEN "resolved" ELSE "null",
              isInitializing |-> FALSE,
              apiKey |-> IF ok THEN result.access_token ELSE handle.apiKey,
              err |-> NoErr]

MainInit ==
    /\ provider \in Providers
    /\ now = StartTime
    /\ \E content \in InitialFiles : fs = [path \in Paths |-> content]
    /\ initialized = FALSE
    /\ oauthPath = None
    /\ creds = Null
    /\ slot = 0
    /\ ops = <<>>
    /\ netCalls = 0
    /\ oauthConfig = Null
    /\ client = Null
    /\ pc = [p \in Procs |-> "idle"]
    /\ buf = [p \in Procs |-> Missing]
    /\ waitOp = [p \in Procs |-> 0]
    /\ call = [p \in Procs |-> NoCall]
    /\ calls = 0
    /\ lastSave = "none"
    /\ handle = Null

Init ==
    /\ MainInit
    /\ fnArgs = Null
    /\ fnRes = Null

(* ----------------------------- fragments ------------------------------ *)

\* faulty variant: the override is resolved again by every call
initializeOAuthPath_EveryCall(settingsPath, envPath) ==
    /\ oauthPath' = OAuthPathOf(settingsPath, envPath)
    /\ initialized' = TRUE

\* initializeOAuthPath(settings, serverEnv)
initializeOAuthPath(settingsPath, envPath) ==
    IF initialized
        THEN UNCHANGED <<initialized, oauthPath>>
        ELSE /\ oauthPath' = OAuthPathOf(settingsPath, envPath)
             /\ initialized' = TRUE

\* what the GET of the remote extension config can yield for data.geminiCli
CompleteConfig == [oauthClientId |-> "client-id", oauthClientSecret |-> "client-secret"]
IncompleteConfig == [oauthClientId |-> "client-id", oauthClientSecret |-> None]
ConfigOutcomes == {"fail", "nosection", "incomplete", "complete"}

\* the check fetchOAuthConfig makes on this._oauthConfig
ConfigUsable(cfg) ==
    cfg # Null /\ Truthy(cfg.oauthClientId) /\ Truthy(cfg.oauthClientSecret)

\* `this._oauthConfig = data.geminiCli`
ConfigStored(outcome) ==
    CASE outcome = "fail" -> oauthConfig
      [] outcome = "nosection" -> Null
      [] outcome = "incomplete" -> IncompleteConfig
      [] OTHER -> CompleteConfig

\* client_id of QwenCode's refresh request
QWEN_OAUTH_CLIENT_ID == "f0304373b74a44d2b584a3fb70ca9e56"

\* the body of the POST performTokenRefresh sends to the token endpoint
RefreshRequest(credentials, cfg) ==
    [refresh_token |-> credentials.refresh_token,
     client_id |-> IF provider = "qwen" THEN QWEN_OAUTH_CLIENT_ID ELSE cfg.oauthClientId,
     client_secret |-> IF provider = "qwen" THEN None ELSE cfg.oauthClientSecret]

\* `if (this._oauthConfig) return this._oauthConfig`
ConfigCached(cfg) == cfg # Null

\* performTokenRefresh(credentials) up to its first I/O: the operation it starts;
\* fetched is the outcome of the operation's GET of the remote configuration,
\* req the body of its POST
performTokenRefresh(p, credentials) ==
    LET phase == IF ~Truthy(credentials.refresh_token) THEN "failed"
                 ELSE IF provider = "gemini" /\ ~ConfigCached(oauthConfig) THEN "config"
                 ELSE "post"
    IN [leader |-> p, cred |-> credentials, resp |-> Null, t |-> 0, newCred |-> Null,
        phase |-> phase, fetched |-> "none",
        req |-> IF phase = "post" THEN RefreshRequest(credentials, oauthConfig) ELSE Null]

\* refreshAccessToken(credentials) rejects within the calling task
RejectsNow(credentials) ==
    ~RefreshInProgress(slot) /\ ~Truthy(credentials.refresh_token)

\* refreshAccessToken(credentials), called by p, up to its await
refreshAccessToken(p, credentials) ==
    IF RefreshInProgress(slot)
        THEN /\ waitOp' = [waitOp EXCEPT ![p] = slot]
             /\ UNCHANGED <<slot, ops, netCalls>>
        ELSE LET k == Len(ops) + 1
                 op == performTokenRefresh(p, credentials)
             IN /\ Len(ops) < MaxRefresh
                /\ ops' = Append(ops, op)
                /\ netCalls' = IF op.phase = "post" THEN netCalls + 1 ELSE netCalls
                /\ IF op.phase = "failed"
                     THEN /\ slot' = SlotAfterSettle(SlotOnStart(k), FALSE)
                          /\ UNCHANGED waitOp
                     ELSE /\ slot' = SlotOnStart(k)
                          /\ waitOp' = [waitOp EXCEPT ![p] = k]

\* the client ensureClient creates or updates (QwenCode only)
ClientFor(credentials) ==
    IF provider = "qwen"
        THEN [apiKey |-> credentials.access_token, baseURL |-> getBaseUrl(credentials)]
        ELSE client

\* where an invocation goes on when its ensureClient / ensureAuthenticated
\* returned: ensureClient itself returns; getDynamicModels requests the model
\* list (QwenCode) or returns [] (GeminiCli); doGenerate / doStream enters
\* callApiWithRetry, which invokes apiCall
OkPc(kind) ==
    CASE kind = "models" -> IF provider = "qwen" THEN "models_fetch" ELSE "models_done"
      [] kind = "generate" -> "api1"
      [] OTHER -> "done"

\* faulty variant: getDynamicModels lets the authentication error escape
FailPc_ModelsThrow(kind) ==
    CASE kind = "models" -> "models_failed"
      [] kind = "generate" -> "gen_failed"
      [] OTHER -> "failed"

\* ... and when it threw: getDynamicModels catches and returns [];
\* getAuthenticatedClient rethrows
FailPc(kind) ==
    CASE kind = "models" -> "models_done"
      [] kind = "generate" -> "gen_failed"
      [] OTHER -> "failed"

\* the invocation record c when its ensureClient / ensureAuthenticated ends,
\* k being the refresh operation it awaited (0 for none)
EndCall(c, ok, result, err, k) ==
    IF ok
        THEN IF c.kind = "generate" THEN [c EXCEPT !.apiCalls = 1, !.gotOp = k]
             ELSE IF c.kind = "models" THEN [c EXCEPT !.gotOp = k]
             ELSE [c EXCEPT !.ret = result.access_token, !.gotOp = k]
        ELSE [c EXCEPT !.gotOp = k,
                       !.err = CASE c.kind = "models" -> NoErr
                                 [] c.kind = "generate" -> AuthError
                                 [] OTHER -> err]

\* The continuations that run when the ensureClient / ensureAuthenticated of
\* the callers in S ends, and the forced refresh of the callers in A ends
\* (cb: the invocation records; k: the refresh operation, 0 for none).
\* ensureClient creates or updates the client; a doGenerate that awaits the
\* handle's clientPromise goes on when the ensureClient behind it ends.
Resume(S, A, cb, ok, result, err, k) ==
    LET gen == \E q \in S : cb[q].kind = "generate"
        W == IF gen THEN {q \in Procs : pc[q] = "gen_wait"} ELSE {}
    IN /\ pc' = [q \in Procs |->
                    IF q \in S THEN (IF ok THEN OkPc(cb[q].kind) ELSE FailPc(cb[q].kind))
                    ELSE IF q \in A THEN AfterForcedRefresh(ok)
                    ELSE IF q \in W THEN (IF ok THEN "api1" ELSE "gen_failed")
                    ELSE pc[q]]
       /\ call' = [q \in Procs |->
                    IF q \in S THEN EndCall(cb[q], ok, result, err, k)
                    ELSE IF q \in A
                        THEN (IF ok THEN [cb[q] EXCEPT !.apiCalls = @ + 1, !.gotOp = k]
                              ELSE [cb[q] EXCEPT !.err = err, !.gotOp = k])
                    ELSE IF q \in W
                        THEN (IF ok THEN [cb[q] EXCEPT !.apiCalls = 1]
                              ELSE [cb[q] EXCEPT !.err = err])
                    ELSE cb[q]]
       /\ client' = IF ok /\ S # {} THEN ClientFor(result) ELSE client
       /\ handle' = IF gen THEN HandleAfter(ok, result, err) ELSE handle

\* ensureClient / ensureAuthenticated from the validity check on, with
\* this._credentials = c, in an invocation whose record is `base`
EnsureFrom(p, c, base) ==
    IF isTokenValid(c, now)
        THEN /\ Resume({p}, {}, [call EXCEPT ![p] = base], TRUE, c, NoErr, 0)
             /\ UNCHANGED <<slot, ops, netCalls, waitOp>>
        ELSE /\ refreshAccessToken(p, c)
             /\ IF RejectsNow(c)
                  THEN Resume({p}, {}, [call EXCEPT ![p] = [base EXCEPT !.refreshReqs = @ + 1]],
                              FALSE, Null, RefreshError, 0)
                  ELSE /\ pc' = [pc EXCEPT ![p] = "ens_refresh"]
                       /\ call' = [call EXCEPT ![p] = [base EXCEPT !.refreshReqs = @ + 1]]
                       /\ handle' = IF base.kind = "generate" THEN HandlePending ELSE handle
                       /\ UNCHANGED client

\* ensureClient(settings, serverEnv) / ensureAuthenticated(settings, serverEnv)
\* up to its first await, in an invocation whose record is `base`
BeginEnsure(p, settingsPath, envPath, base) ==
    /\ initializeOAuthPath(settingsPath, envPath)
    /\ IF creds = Null
         THEN /\ pc' = [pc EXCEPT ![p] = "load"]
              /\ call' = [call EXCEPT ![p] = base]
              /\ handle' = IF base.kind = "generate" THEN HandlePending ELSE handle
              /\ UNCHANGED <<slot, ops, netCalls, waitOp, client>>
         ELSE EnsureFrom(p, creds, [base EXCEPT !.sawExpired = ~isTokenValid(creds, now)])

(* ------------------------------ settling ------------------------------ *)

AwaitsRefresh(q, k) == waitOp[q] = k /\ pc[q] \in {"ens_refresh", "api_refresh"}

\* Refresh operation k settles: the promise performTokenRefresh returned is
\* resolved with `result` (ok) or rejected.  The reactions run in this task:
\* the leader's `finally` clears the slot; every awaiting ensureClient and
\* callApiWithRetry stores the result in _credentials; ensureClient updates
\* the client and returns; callApiWithRetry invokes apiCall again.
Settle(k, ok, result) ==
    /\ slot' = SlotAfterSettle(slot, ok)
    /\ creds' = IF ok /\ \E q \in Procs : AwaitsRefresh(q, k) THEN result ELSE creds
    /\ Resume({q \in Procs : waitOp[q] = k /\ pc[q] = "ens_refresh"},
              {q \in Procs : waitOp[q] = k /\ pc[q] = "api_refresh"},
              call, ok, result, RefreshError, k)
    /\ waitOp' = [q \in Procs |-> IF AwaitsRefresh(q, k) THEN 0 ELSE waitOp[q]]

(* ------------------------------ actions ------------------------------- *)

\* ensureClient(settings, serverEnv) / ensureAuthenticated(settings, serverEnv)
\* is called: the code up to its first await
StartEnsure(p, settingsPath, envPath) ==
    /\ pc[p] \in Resting
    /\ calls < MaxCalls
    /\ calls' = calls + 1
    /\ BeginEnsure(p, settingsPath, envPath,
                   [NoCall EXCEPT !.kind = "ensure", !.ensured = TRUE,
                                  !.settledAtStart = Cardinality(SettledOps)])
    /\ UNCHANGED <<provider, now, fs, creds, oauthConfig, buf, lastSave, fnArgs, fnRes>>

\* fs.readFile reads the credential file for p's pending loadCredentials
ReadFile(p) ==
    /\ pc[p] = "load"
    /\ pc' = [pc EXCEPT ![p] = "loaded"]
    /\ buf' = [buf EXCEPT ![p] = fs[credPath]]
    /\ call' = [call EXCEPT ![p].loads = @ + 1]
    /\ UNCHANGED <<provider, now, fs, initialized, oauthPath, creds, slot, ops, netCalls,
                   oauthConfig, client, waitOp, calls, lastSave, handle, fnArgs, fnRes>>

\* readFile completes: loadCredentials parses and checks the text, ensureClient
\* stores the record and goes on to the validity check
LoadDone(p) ==
    /\ pc[p] = "loaded"
    /\ buf' = [buf EXCEPT ![p] = Missing]
    /\ IF Loadable(buf[p])
         THEN /\ creds' = buf[p].obj
              /\ EnsureFrom(p, buf[p].obj, call[p])
         ELSE /\ Resume({p}, {}, call, FALSE, Null, LoadError, 0)
              /\ UNCHANGED <<creds, slot, ops, netCalls, waitOp>>
    /\ UNCHANGED <<provider, now, fs, initialized, oauthPath, oauthConfig, calls,
                   lastSave, fnArgs, fnRes>>

\* GeminiCli: the GET issued by fetchOAuthConfig for refresh operation k
\* completes; on success performTokenRefresh sends the POST
ConfigDone(k, outcome) ==
    /\ k \in 1 .. Len(ops)
    /\ ops[k].phase = "config"
    /\ oauthConfig' = ConfigStored(outcome)
    /\ IF outcome # "fail" /\ ConfigUsable(ConfigStored(outcome))
         THEN /\ ops' = [ops EXCEPT ![k].phase = "post", ![k].fetched = outcome,
                                    ![k].req = RefreshRequest(ops[k].cred,
                                                              ConfigStored(outcome))]
              /\ netCalls' = netCalls + 1
              /\ UNCHANGED <<creds, slot, client, pc, waitOp, call, handle>>
         ELSE /\ ops' = [ops EXCEPT ![k].phase = "failed", ![k].fetched = outcome]
              /\ Settle(k, FALSE, Null)
              /\ UNCHANGED netCalls
    /\ UNCHANGED <<provider, now, fs, initialized, oauthPath, buf, calls, lastSave,
                   fnArgs, fnRes>>

\* fetch rejects: there is no response
NetworkFailure == [fail |-> "network"]

\* a response whose body carries no token fields
ErrorResponse(ok) ==
    [ok |-> ok, error |-> "invalid_grant", access_token |-> None, refresh_token |-> None,
     token_type |-> None, expires_in |-> 0]

\* the ways the POST to the token endpoint fails: fetch rejects, the status
\* is not successful, the body carries an error field
RefreshFailures == {NetworkFailure, ErrorResponse(FALSE), ErrorResponse(TRUE)}

\* faulty variant: the error field of the body is not looked at
ResponseFails_IgnoresErrorField(r) == r = NetworkFailure \/ ~r.ok

\* performTokenRefresh throws on this outcome of the POST
ResponseFails(r) == r = NetworkFailure \/ ~r.ok \/ Truthy(r.error)

\* the response to refresh operation k's POST arrives: performTokenRefresh
\* fails, or builds the new record and starts saving it
RefreshResponse(k, r) ==
    /\ k \in 1 .. Len(ops)
    /\ ops[k].phase = "post"
    /\ IF ResponseFails(r)
         THEN /\ ops' = [ops EXCEPT ![k].phase = "failed", ![k].resp = r]
              /\ Settle(k, FALSE, Null)
         ELSE /\ ops' = [ops EXCEPT ![k].phase = "save", ![k].resp = r, ![k].t = now,
                                    ![k].newCred = NewCredentials(ops[k].cred, r, now)]
              /\ UNCHANGED <<creds, slot, client, pc, waitOp, call, handle>>
    /\ UNCHANGED <<provider, now, fs, initialized, oauthPath, netCalls, oauthConfig, buf,
                   calls, lastSave, fnArgs, fnRes>>

\* faulty variant: an error of mkdir / writeFile escapes saveCredentials
SaveReturns_OnlyIfWritten(saved) == saved

\* saveCredentials catches every error of mkdir / writeFile and returns
SaveReturns(saved) == TRUE

\* saveCredentials(newCredentials) of refresh operation k ends, the file
\* written or not; performTokenRefresh returns newCredentials
SaveDone(k, saved) ==
    /\ k \in 1 .. Len(ops)
    /\ ops[k].phase = "save"
    /\ fs' = IF saved THEN [fs EXCEPT ![credPath] = JSONStringify(ops[k].newCred)] ELSE fs
    /\ lastSave' = IF saved THEN "saved" ELSE "unsaved"
    /\ ops' = [ops EXCEPT ![k].phase = IF SaveReturns(saved) THEN "ok" ELSE "failed"]
    /\ Settle(k, SaveReturns(saved), ops[k].newCred)
    /\ UNCHANGED <<provider, now, initialized, oauthPath, netCalls, oauthConfig, buf,
                   calls, fnArgs, fnRes>>

ApiStatuses == {200, 401, 500}

\* callApiWithRetry(apiCall) is called: apiCall is invoked
StartApi(p) ==
    /\ pc[p] \in Resting
    /\ calls < MaxCalls
    /\ calls' = calls + 1
    /\ pc' = [pc EXCEPT ![p] = "api1"]
    /\ call' = [call EXCEPT ![p] = [NoCall EXCEPT !.kind = "api", !.apiCalls = 1]]
    /\ UNCHANGED <<provider, now, fs, initialized, oauthPath, creds, slot, ops, netCalls,
                   oauthConfig, client, buf, waitOp, lastSave, handle, fnArgs, fnRes>>

\* the first apiCall() settles with this status
ApiDone(p, status) ==
    /\ pc[p] = "api1"
    /\ IF status = 200
         THEN /\ pc' = [pc EXCEPT ![p] = "api_done"]
              /\ call' = [call EXCEPT ![p].ret = "result1", ![p].firstStatus = status]
              /\ UNCHANGED <<slot, ops, netCalls, waitOp>>
         ELSE IF ShouldRetry(status, creds)
         THEN /\ refreshAccessToken(p, creds)
              /\ pc' = [pc EXCEPT ![p] = IF RejectsNow(creds) THEN "api_failed"
                                         ELSE "api_refresh"]
              /\ call' = [call EXCEPT ![p].firstStatus = status, ![p].hadCreds = TRUE,
                                      ![p].refreshReqs = @ + 1,
                                      ![p].err = IF RejectsNow(creds) THEN RefreshError
                                                 ELSE NoErr]
         ELSE /\ pc' = [pc EXCEPT ![p] = "api_failed"]
              /\ call' = [call EXCEPT ![p].err = ApiError(status, 1),
                                      ![p].firstStatus = status,
                                      ![p].hadCreds = (creds # Null)]
              /\ UNCHANGED <<slot, ops, netCalls, waitOp>>
    /\ UNCHANGED <<provider, now, fs, initialized, oauthPath, creds, oauthConfig, client,
                   buf, calls, lastSave, handle, fnArgs, fnRes>>

\* `return await apiCall()`: what the retry yields is what the wrapper yields
RetryResult == "result2"

\* faulty variant: the error of the first attempt is rethrown
RetryError_First(status) == ApiError(401, 1)

RetryError(status) == ApiError(status, 2)

\* the second apiCall() settles with this status
RetryDone(p, status) ==
    /\ pc[p] = "api2"
    /\ IF status = 200
         THEN /\ pc' = [pc EXCEPT ![p] = "api_done"]
              /\ call' = [call EXCEPT ![p].ret = RetryResult, ![p].secondStatus = status]
         ELSE /\ pc' = [pc EXCEPT ![p] = "api_failed"]
              /\ call' = [call EXCEPT ![p].err = RetryError(status),
                                      ![p].secondStatus = status]
    /\ UNCHANGED <<provider, now, fs, initialized, oauthPath, creds, slot, ops, netCalls,
                   oauthConfig, client, buf, waitOp, calls, lastSave, handle,
                   fnArgs, fnRes>>

\* time passes
Tick ==
    /\ now < StartTime + MaxTicks * TickMs
    /\ now' = now + TickMs
    /\ UNCHANGED <<provider, fs, initialized, oauthPath, creds, slot, ops, netCalls,
                   oauthConfig, client, pc, buf, waitOp, call, calls, lastSave, handle,
                   fnArgs, fnRes>>

Next ==
    \/ \E p \in Procs, s \in SettingsPaths, e \in EnvPaths : StartEnsure(p, s, e)
    \/ \E p \in Procs : ReadFile(p)
    \/ \E p \in Procs : LoadDone(p)
    \/ \E k \in 1 .. MaxRefresh, o \in ConfigOutcomes : ConfigDone(k, o)
    \/ \E k \in 1 .. MaxRefresh : \E r \in RefreshFailures \cup OkResponses(k) :
            RefreshResponse(k, r)
    \/ \E k \in 1 .. MaxRefresh, saved \in BOOLEAN : SaveDone(k, saved)
    \/ \E p \in Procs : StartApi(p)
    \/ \E p \in Procs, st \in ApiStatuses : ApiDone(p, st)
    \/ \E p \in Procs, st \in ApiStatuses : RetryDone(p, st)
    \/ Tick

Spec == Init /\ [][Next]_vars

(* ------------------------- public entry points ------------------------ *)

\* the pieces the filter of getDynamicModels looks for in each model id
NamePieces(id) ==
    CASE id = "qwen3-coder-plus" -> {"coder", "qwen"}
      [] id = "qwq-32b" -> {"qwq"}
      [] OTHER -> {}

\* entries of data.data: objects with an id (possibly empty), or null
ModelEntry(id) == [isNull |-> FALSE, id |-> id]
NullEntry == [isNull |-> TRUE, id |-> None]

\* a response to GET {baseURL}/models: its status, and a body that is not
\* JSON, JSON without a data array, or JSON with a data array
ModelsResponse(ok, kind, data) == [ok |-> ok, kind |-> kind, data |-> data]

ModelsResponses ==
    {NetworkFailure,
     ModelsResponse(FALSE, "garbage", <<>>),
     ModelsResponse(TRUE, "garbage", <<>>),
     ModelsResponse(TRUE, "nodata", <<>>),
     ModelsResponse(TRUE, "list", <<ModelEntry("qwen3-coder-plus"), ModelEntry("gpt-4o"),
                                    ModelEntry(None), ModelEntry("qwq-32b")>>),
     ModelsResponse(TRUE, "list", <<ModelEntry("qwq-32b"), NullEntry>>)}

\* `model.id && (model.id.includes('coder') || ... 'qwen' ... 'qwq')`
KeepModel(entry) ==
    Truthy(entry.id) /\ NamePieces(entry.id) \cap {"coder", "qwen", "qwq"} # {}

\* what the code between the fetch and the `return` of getDynamicModels does
\* with the outcome r: it throws (fetch rejected, response.json() threw, an
\* entry is null), or it yields the list to return
ModelsOutcome(r) ==
    IF r = NetworkFailure THEN [threw |-> TRUE, models |-> <<>>]
    ELSE IF ~r.ok THEN [threw |-> FALSE, models |-> <<>>]
    ELSE IF r.kind = "garbage" THEN [threw |-> TRUE, models |-> <<>>]
    ELSE IF r.kind = "nodata" THEN [threw |-> FALSE, models |-> <<>>]
    ELSE IF \E i \in 1 .. Len(r.data) : r.data[i].isNull
        THEN [threw |-> TRUE, models |-> <<>>]
    ELSE [threw |-> FALSE, models |-> SelectSeq(r.data, KeepModel)]

\* getDynamicModels(apiKeys, settings, serverEnv) is called on the server: the
\* code up to its first await
StartModels(p, settingsPath, envPath) ==
    /\ pc[p] \in Resting
    /\ calls < MaxCalls
    /\ calls' = calls + 1
    /\ BeginEnsure(p, settingsPath, envPath,
                   [NoCall EXCEPT !.kind = "models", !.ensured = TRUE,
                                  !.settledAtStart = Cardinality(SettledOps)])
    /\ UNCHANGED <<provider, now, fs, creds, oauthConfig, buf, lastSave, fnArgs, fnRes>>

\* QwenCode: the GET of the model list settles with outcome r; getDynamicModels
\* returns
ModelsDone(p, r) ==
    /\ pc[p] = "models_fetch"
    /\ pc' = [pc EXCEPT ![p] = IF ModelsOutcome(r).threw THEN FailPc("models")
                               ELSE "models_done"]
    /\ call' = [call EXCEPT ![p].models = ModelsOutcome(r).models, ![p].resp = r]
    /\ UNCHANGED <<provider, now, fs, initialized, oauthPath, creds, slot, ops, netCalls,
                   oauthConfig, client, buf, waitOp, calls, lastSave, handle,
                   fnArgs, fnRes>>

\* providerSettings?.[this.name]?.baseUrl and envRecord[apiTokenKey] captured by
\* getModelInstance for the handle
HandleSettingsPath == None
HandleEnvPath == None

\* faulty variant: getModelInstance resolves the credential path at once
GetModelInstance_Eager ==
    /\ handle = Null
    /\ handle' = NoHandleClient
    /\ initializeOAuthPath(HandleSettingsPath, HandleEnvPath)
    /\ UNCHANGED <<provider, now, fs, creds, slot, ops, netCalls, oauthConfig,
                   client, pc, buf, waitOp, call, calls, lastSave, fnArgs, fnRes>>

\* getModelInstance(options): the handle is created with clientPromise null
\* and isInitializing false around a placeholder client; nothing else runs
GetModelInstance ==
    /\ handle = Null
    /\ handle' = NoHandleClient
    /\ UNCHANGED <<provider, now, fs, initialized, oauthPath, creds, slot, ops, netCalls,
                   oauthConfig, client, pc, buf, waitOp, call, calls, lastSave,
                   fnArgs, fnRes>>

\* doGenerate / doStream is called on the model handle: getAuthenticatedClient
\* up to its first await, and, when the client is there already,
\* callApiWithRetry up to the first apiCall
StartGenerate(p) ==
    /\ handle # Null
    /\ pc[p] \in Resting
    /\ calls < MaxCalls
    /\ calls' = calls + 1
    /\ LET base == [NoCall EXCEPT !.kind = "generate",
                                  !.settledAtStart = Cardinality(SettledOps)]
       IN IF handle.clientPromise = "null" /\ ~handle.isInitializing
            THEN BeginEnsure(p, HandleSettingsPath, HandleEnvPath,
                             [base EXCEPT !.ensured = TRUE])
            ELSE /\ pc' = [pc EXCEPT ![p] =
                            CASE handle.clientPromise = "pending" -> "gen_wait"
                              [] handle.clientPromise = "resolved" -> "api1"
                              [] OTHER -> "gen_failed"]
                 /\ call' = [call EXCEPT ![p] =
                            CASE handle.clientPromise = "pending" ->
                                    [base EXCEPT !.ensured = TRUE]
                              [] handle.clientPromise = "resolved" ->
                                    [base EXCEPT !.apiCalls = 1]
                              [] handle.clientPromise = "rejected" ->
                                    [base EXCEPT !.err = handle.err]
                              [] OTHER -> [base EXCEPT !.err = InitInProgress]]
                 /\ UNCHANGED <<initialized, oauthPath, slot, ops, netCalls, waitOp,
                                client, handle>>
    /\ UNCHANGED <<provider, now, fs, creds, oauthConfig, buf, lastSave, fnArgs, fnRes>>

\* the outcomes of the token POST at this level: a full response, a rejected
\* fetch, a body with an error field
AppResponses(k) == {FullResponse(k), NetworkFailure, ErrorResponse(TRUE)}

\* the provider as the application drives it: through getDynamicModels and
\* through the doGenerate / doStream of a model handle
AppNext ==
    \/ \E p \in Procs, s \in SettingsPaths, e \in EnvPaths : StartModels(p, s, e)
    \/ GetModelInstance
    \/ \E p \in Procs : StartGenerate(p)
    \/ \E p \in Procs : ReadFile(p)
    \/ \E p \in Procs : LoadDone(p)
    \/ \E k \in 1 .. MaxRefresh, o \in ConfigOutcomes : ConfigDone(k, o)
    \/ \E k \in 1 .. MaxRefresh : \E r \in AppResponses(k) : RefreshResponse(k, r)
    \/ \E k \in 1 .. MaxRefresh, saved \in BOOLEAN : SaveDone(k, saved)
    \/ \E p \in Procs, r \in ModelsResponses : ModelsDone(p, r)
    \/ \E p \in Procs, st \in ApiStatuses : ApiDone(p, st)
    \/ \E p \in Procs, st \in ApiStatuses : RetryDone(p, st)
    \/ Tick

SpecApp == Init /\ [][AppNext]_vars

(* ------------------------- validity harness --------------------------- *)

\* the records and times isTokenValid is applied to: expiry_date absent or
\* zero, and every ms within MaxSkew of `now + buffer`
HarnessTimes == {StartTime + i : i \in 0 .. MaxSkew}
HarnessExpiries == {0} \cup {StartTime + 30000 + j : j \in (0 - MaxSkew) .. (2 * MaxSkew)}

ValidInit ==
    /\ MainInit
    /\ provider = "qwen"
    /\ fs = [path \in Paths |-> Missing]
    /\ fnArgs \in [credentials : {Cred("at0", "rt0", "Bearer", e, NoUrl) : e \in HarnessExpiries},
                   now : HarnessTimes]
    /\ fnRes = Null

\* isTokenValid(credentials) is called at time fnArgs.now
ApplyValid ==
    /\ fnRes = Null
    /\ fnRes' = [value |-> isTokenValid(fnArgs.credentials, fnArgs.now)]
    /\ UNCHANGED <<provider, now, fs, initialized, oauthPath, creds, slot, ops, netCalls,
                   oauthConfig, client, pc, buf, waitOp, call, calls, lastSave, handle,
                   fnArgs>>

ValidNext == ApplyValid

SpecValid == ValidInit /\ [][ValidNext]_vars

(* ------------------------------ claims -------------------------------- *)

\* the refresh operation a caller is attached to: the one it awaits, or the
\* one whose outcome it received
OpOf(p) == IF waitOp[p] # 0 THEN waitOp[p] ELSE call[p].gotOp

\* the caller's invocation went through a refresh that has settled
GotRefresh(p) == waitOp[p] = 0 /\ call[p].gotOp # 0

\* C1: single-flight refresh. At every moment at most one refresh operation
\* is in progress; every caller that requested a refresh while one was in
\* progress awaits exactly that operation (the one in the slot) and no extra
\* POST was sent for it; and what a caller receives from the refresh it
\* awaited is that operation's outcome.
C1_SingleFlight ==
    /\ Cardinality(RunningOps) <= 1
    /\ netCalls <= Len(ops)
    /\ \A p \in Procs : waitOp[p] # 0 =>
            /\ waitOp[p] = slot
            /\ waitOp[p] \in RunningOps
    /\ \A p \in Procs : GotRefresh(p) =>
            LET op == ops[call[p].gotOp]
            IN /\ op.phase \in {"ok", "failed"}
               /\ (op.phase = "failed") = (call[p].err = RefreshError)
               /\ (op.phase = "ok" /\ call[p].kind = "ensure") =>
                      (pc[p] = "done" /\ call[p].ret = op.newCred.access_token)

\* C1 witness: two callers shared one refresh operation, one of them having
\* joined it while it was in progress, and both received its result.
C1_Witness ==
    \E p, q \in Procs :
        /\ p # q
        /\ GotRefresh(p) /\ GotRefresh(q)
        /\ call[p].gotOp = call[q].gotOp
        /\ ops[call[p].gotOp].leader = p
        /\ pc[p] = "done" /\ pc[q] = "done"
        /\ netCalls = 1

\* C2: N concurrent ensureClient / ensureAuthenticated calls that all found the
\* cached record expired (callers that started between the same two refresh
\* settlements overlap) are attached to one and the same refresh operation,
\* for which at most one POST is sent, and all of them that return, return
\* the access token of that operation's record.
C2_ConcurrentEnsureOneRefresh ==
    /\ netCalls <= Len(ops)
    /\ \A p, q \in Procs :
        ( /\ call[p].sawExpired /\ call[q].sawExpired
          /\ call[p].settledAtStart = call[q].settledAtStart ) =>
            /\ OpOf(p) # 0
            /\ OpOf(p) = OpOf(q)
            /\ pc[p] = "done" =>
                  /\ ops[OpOf(p)].phase = "ok"
                  /\ pc[q] = "done"
                  /\ call[p].ret = ops[OpOf(p)].newCred.access_token
                  /\ call[q].ret = call[p].ret

\* C2 witness: two concurrent calls against an expired cached record have
\* both returned, with the token of the single POST sent since they started.
C2_Witness ==
    \E p, q \in Procs :
        /\ p # q
        /\ call[p].sawExpired /\ call[q].sawExpired
        /\ call[p].settledAtStart = call[q].settledAtStart
        /\ pc[p] = "done" /\ pc[q] = "done"
        /\ call[p].ret = call[q].ret
        /\ Truthy(call[p].ret)

\* C3: the in-flight slot is non-empty exactly while a refresh operation is
\* running, and then holds that operation: it is not cleared before the
\* operation settles and is cleared when it settles, after a failure as after a
\* success. No caller is left awaiting a settled operation, so a request made
\* after the slot is cleared starts a new operation.
C3_SlotTracksRunningRefresh ==
    /\ (slot # 0) = (RunningOps # {})
    /\ slot # 0 => slot \in RunningOps
    /\ \A p \in Procs : waitOp[p] # 0 => waitOp[p] \in RunningOps
    /\ \A k \in SettledOps : \A p \in Procs : ~AwaitsRefresh(p, k)

\* C3 witness: a refresh failed, the slot was cleared, and a later request
\* started a new operation, which is now in the slot.
C3_Witness ==
    \E k \in SettledOps :
        /\ ops[k].phase = "failed"
        /\ slot > k
        /\ slot \in RunningOps

\* the forced refresh of the caller's callApiWithRetry has settled with success
RefreshOkFor(p) == GotRefresh(p) /\ ops[call[p].gotOp].phase = "ok"

\* C4: in every callApiWithRetry execution apiCall is invoked once or twice
\* and at most one refresh is requested; a refresh is requested exactly when
\* the first invocation failed with 401 while a record was cached; the second
\* invocation happens exactly when that refresh has succeeded, never while it
\* is pending; when the refresh fails apiCall is not invoked again and the
\* refresh failure is what the wrapper throws.
C4_RetryOrderAndCounts ==
    \A p \in Procs : call[p].kind = "api" =>
        /\ call[p].apiCalls \in {1, 2}
        /\ call[p].refreshReqs \in {0, 1}
        /\ (call[p].refreshReqs = 1) = (call[p].firstStatus = 401 /\ call[p].hadCreds)
        /\ pc[p] \in {"api1", "api_refresh"} => call[p].apiCalls = 1
        /\ (call[p].apiCalls = 2 \/ pc[p] = "api2") =>
                call[p].apiCalls = 2 /\ call[p].refreshReqs = 1 /\ RefreshOkFor(p)
        /\ (call[p].refreshReqs = 1 /\ RefreshOkFor(p)) => call[p].apiCalls = 2
        /\ (GotRefresh(p) /\ ops[call[p].gotOp].phase = "failed") =>
                /\ call[p].apiCalls = 1
                /\ pc[p] = "api_failed"
                /\ call[p].err = RefreshError

\* C4 witness: a first call failed with 401, the forced refresh succeeded,
\* and apiCall is being invoked the second time.
C4_Witness ==
    \E p \in Procs :
        /\ call[p].kind = "api"
        /\ pc[p] = "api2"
        /\ call[p].firstStatus = 401
        /\ call[p].apiCalls = 2
        /\ call[p].refreshReqs = 1

\* C5: a callApiWithRetry execution that invoked apiCall twice ends with the
\* second invocation's outcome: its result when it succeeded, and exactly its
\* error (a second 401 or any other) when it failed, after one refresh and
\* two invocations in all.
C5_RetryOutcome ==
    \A p \in Procs :
        (call[p].kind = "api" /\ call[p].apiCalls = 2 /\ pc[p] \in Resting) =>
            /\ call[p].refreshReqs = 1
            /\ call[p].secondStatus = 200 =>
                    pc[p] = "api_done" /\ call[p].ret = "result2" /\ call[p].err = NoErr
            /\ call[p].secondStatus # 200 =>
                    /\ pc[p] = "api_failed"
                    /\ call[p].err = ApiError(call[p].secondStatus, 2)
                    /\ call[p].ret = None

\* C5 witness: the retry failed with a second 401, which the wrapper threw,
\* while another caller's retry succeeded.
C5_Witness ==
    \E p, q \in Procs :
        /\ call[p].kind = "api" /\ call[p].apiCalls = 2
        /\ pc[p] = "api_failed" /\ call[p].err = ApiError(401, 2)
        /\ call[q].kind = "api" /\ call[q].apiCalls = 2
        /\ pc[q] = "api_done" /\ call[q].ret = "result2"

\* C6: when the first apiCall fails with a status other than 401, or with 401
\* while no record is cached, the step that handles the failure ends the
\* wrapper with that same error after one invocation and no refresh request,
\* and leaves the cached record, the in-flight slot and the refresh
\* operations as they were.
C6_OtherErrorsPropagate ==
    [][ \A p \in Procs :
          ( /\ pc[p] = "api1"
            /\ pc'[p] # "api1"
            /\ call'[p].firstStatus # 200
            /\ ~(call'[p].firstStatus = 401 /\ creds # Null) ) =>
              /\ pc'[p] = "api_failed"
              /\ call'[p].err = ApiError(call'[p].firstStatus, 1)
              /\ call'[p].apiCalls = 1
              /\ call'[p].refreshReqs = 0
              /\ creds' = creds
              /\ slot' = slot
              /\ ops' = ops
              /\ netCalls' = netCalls ]_vars

\* C6 witness: one call failed with 401 while nothing was cached, another
\* failed with 500 while a record was cached; both threw after one invocation.
C6_Witness ==
    \E p, q \in Procs :
        /\ call[p].kind = "api" /\ pc[p] = "api_failed"
        /\ call[p].err = ApiError(401, 1) /\ ~call[p].hadCreds
        /\ call[q].kind = "api" /\ pc[q] = "api_failed"
        /\ call[q].err = ApiError(500, 1) /\ call[q].hadCreds
        /\ call[q].apiCalls = 1 /\ call[q].refreshReqs = 0

\* C7: isTokenValid returns true exactly when expiry_date is present and
\* non-zero and now < expiry_date - 30000: false for every expiry_date up to
\* and including now + 30000, true above it, false for an absent or zero one.
C7_TokenValidity ==
    fnRes # Null =>
        LET e == fnArgs.credentials.expiry_date
            t == fnArgs.now
        IN /\ fnRes.value = (e # 0 /\ t < e - 30000)
           /\ (e <= t + 30000) => ~fnRes.value
           /\ (e > t + 30000) => fnRes.value
           /\ (e = 0) => ~fnRes.value

\* C7 witness: isTokenValid was applied to a record that expires exactly
\* 30000 ms after now, and returned false.
C7_Witness ==
    /\ fnRes # Null
    /\ fnArgs.credentials.expiry_date = fnArgs.now + 30000
    /\ ~fnRes.value

\* C8: a cached credential record always has a non-empty access_token and a
\* non-empty refresh_token.
C8_CachedTokensNonEmpty ==
    creds # Null => Truthy(creds.access_token) /\ Truthy(creds.refresh_token)

\* C9: the record built by a successful refresh takes access_token from the
\* response, token_type from the response or "Bearer", refresh_token from the
\* response or from the prior record, expiry_date as the time the response is
\* handled plus expires_in * 1000, and resource_url from the prior record.
C9_RefreshedRecord ==
    \A k \in 1 .. Len(ops) : ops[k].phase \in {"save", "ok"} =>
        LET prior == ops[k].cred
            resp == ops[k].resp
            rec == ops[k].newCred
        IN /\ rec.access_token = resp.access_token
           /\ rec.token_type = (IF resp.token_type = None THEN "Bearer" ELSE resp.token_type)
           /\ rec.refresh_token = (IF resp.refresh_token = None THEN prior.refresh_token
                                   ELSE resp.refresh_token)
           /\ rec.expiry_date = ops[k].t + resp.expires_in * 1000
           /\ rec.resource_url = prior.resource_url

\* C9 witness: a response without refresh_token and token_type produced the
\* cached record, which keeps the prior refresh token and resource_url.
C9_Witness ==
    \E k \in 1 .. Len(ops) :
        /\ ops[k].phase = "ok"
        /\ ops[k].resp.refresh_token = None
        /\ ops[k].resp.token_type = None
        /\ creds = ops[k].newCred
        /\ creds.refresh_token = "rt0"
        /\ creds.token_type = "Bearer"
        /\ creds.resource_url # NoUrl
        /\ creds.expiry_date = ops[k].t + 30000

\* every caller is outside ensureClient and callApiWithRetry, and no refresh
\* is in flight
Quiescent == slot = 0 /\ \A p \in Procs : pc[p] \in Resting

\* C10: after a successful refresh whose save succeeded, once the callers have
\* returned, the access_token in the credential file equals that of the
\* cached record.
C10_FileMatchesCache ==
    (lastSave = "saved" /\ Quiescent) =>
        /\ fs[credPath].kind = "json"
        /\ fs[credPath].obj.access_token = creds.access_token

Unloadable(content) ==
    \/ content.kind \in {"missing", "garbage"}
    \/ content.kind = "json" /\
          (content.obj.access_token = None \/ content.obj.refresh_token = None)

\* C12: when the credential file is missing or unreadable, not valid JSON, or
\* lacks a non-empty access_token or refresh_token, the step that completes
\* the load ends ensureClient / ensureAuthenticated with the load error,
\* leaves the cache as it was (empty, when it was empty), and starts no
\* refresh; an ensureClient call made while the cache is empty attempts the
\* load. When the file is well-formed the loaded record becomes the cached
\* record.
C12_LoadFailure ==
    [][ \A p \in Procs :
          /\ (pc[p] = "loaded" /\ pc'[p] # "loaded" /\ Unloadable(buf[p])) =>
                /\ pc'[p] = "failed"
                /\ call'[p].err = LoadError
                /\ creds' = creds
                /\ ops' = ops /\ netCalls' = netCalls /\ slot' = slot
          /\ (pc[p] = "loaded" /\ pc'[p] # "loaded" /\ ~Unloadable(buf[p])) =>
                /\ creds' = buf[p].obj
                /\ call'[p].err # LoadError
          /\ ( /\ pc[p] \in Resting
               /\ pc'[p] \notin Resting \/ call'[p] # call[p]
               /\ call'[p].kind = "ensure"
               /\ creds = Null ) =>
                /\ pc'[p] = "load"
                /\ creds' = Null ]_vars

\* C12 witness: the file lacks a refresh_token; one call has failed with the
\* load error, the cache is empty, no refresh was started, and another call
\* is loading again.
C12_Witness ==
    \E p, q \in Procs :
        /\ fs[credPath].kind = "json"
        /\ fs[credPath].obj.refresh_token = None
        /\ pc[p] = "failed" /\ call[p].err = LoadError
        /\ creds = Null
        /\ ops = <<>> /\ netCalls = 0
        /\ pc[q] = "loaded" /\ buf[q] = fs[credPath]

\* C13: an ensureClient / ensureAuthenticated call reads the file at most
\* once and requests at most one refresh, also when that refresh fails. When
\* the load it made yields a well-formed record whose expiry_date is not after
\* now, the step that completes the load requests the refresh (the call does
\* not return in that step); the refresh operation sends at most one POST;
\* and the call, when it returns, returns the access token of the record that
\* operation built, not the one loaded. When that call is the only one made,
\* exactly one operation was started and exactly one POST was sent.
C13_FirstUseExpired ==
    /\ [](\A p \in Procs : call[p].kind = "ensure" =>
            /\ call[p].loads <= 1
            /\ call[p].refreshReqs <= 1
            /\ netCalls <= Len(ops)
            /\ (pc[p] = "ens_refresh") => (call[p].refreshReqs = 1 /\ waitOp[p] # 0)
            /\ (pc[p] = "failed" /\ call[p].err = RefreshError) => call[p].refreshReqs = 1
            /\ (pc[p] = "done" /\ call[p].loads = 1 /\ call[p].refreshReqs = 1) =>
                  /\ GotRefresh(p)
                  /\ ops[call[p].gotOp].phase = "ok"
                  /\ call[p].ret = ops[call[p].gotOp].newCred.access_token
                  /\ call[p].ret # "at0"
                  /\ calls = 1 => (Len(ops) = 1 /\ netCalls = 1))
    /\ [][ \A p \in Procs :
             ( /\ pc[p] = "loaded" /\ pc'[p] # "loaded"
               /\ ~Unloadable(buf[p])
               /\ buf[p].obj.expiry_date <= now ) =>
                 /\ call[p].loads = 1 /\ call[p].refreshReqs = 0
                 /\ call'[p].refreshReqs = 1
                 /\ pc'[p] = "ens_refresh"
                 /\ waitOp'[p] # 0 ]_vars

\* C13 witness: the only call made so far loaded an expired record, one POST
\* was sent, and the call returned the refreshed token.
C13_Witness ==
    \E p \in Procs :
        /\ calls = 1
        /\ call[p].kind = "ensure" /\ pc[p] = "done"
        /\ call[p].loads = 1 /\ call[p].refreshReqs = 1
        /\ ops[1].cred.access_token = "at0"
        /\ ops[1].cred.expiry_date <= ops[1].t
        /\ netCalls = 1 /\ Len(ops) = 1
        /\ call[p].ret = "at1"
        /\ creds.access_token = "at1"

\* the outcome of the POST recorded for operation k is a failure
FailedResponse(k) ==
    ops[k].resp # Null /\
        (ops[k].resp = NetworkFailure \/ ~ops[k].resp.ok \/ ops[k].resp.error # None)

C16_ClientBoundToToken ==
    (client # Null /\ Quiescent) => client.apiKey = creds.access_token

\* C19: an ensureClient / ensureAuthenticated call made while the cached
\* record is valid (its expiry_date more than 30000 ms ahead) completes in
\* the step in which it is made: it returns the cached access token, reads
\* no file, requests no refresh, sends no POST, and leaves the cached
\* record, the in-flight slot and the file system unchanged. This holds for
\* every such call, whatever the other callers are doing.
C19_ValidCacheNoIO ==
    [][ \A p \in Procs :
          ( /\ pc[p] \in Resting
            /\ calls' = calls + 1
            /\ call'[p].kind = "ensure"
            /\ call'[p] # call[p] \/ pc'[p] # pc[p]
            /\ creds # Null
            /\ creds.expiry_date # 0
            /\ now < creds.expiry_date - 30000 ) =>
              /\ pc'[p] = "done"
              /\ call'[p].ret = creds.access_token
              /\ call'[p].err = NoErr
              /\ call'[p].loads = 0 /\ call'[p].refreshReqs = 0
              /\ buf' = buf
              /\ ops' = ops /\ netCalls' = netCalls
              /\ creds' = creds
              /\ slot' = slot
              /\ fs' = fs ]_vars

\* C19 witness: after the record was loaded, two callers each called again
\* while it was valid; both returned the cached token, with one file read and
\* no POST in the whole run.
C19_Witness ==
    \E p, q \in Procs :
        /\ p # q
        /\ calls = 3
        /\ creds # Null /\ isTokenValid(creds, now)
        /\ call[p].kind = "ensure" /\ pc[p] = "done"
        /\ call[q].kind = "ensure" /\ pc[q] = "done"
        /\ call[p].loads = 0 /\ call[q].loads = 0
        /\ call[p].ret = creds.access_token /\ call[q].ret = creds.access_token
        /\ netCalls = 0 /\ ops = <<>>

\* C20: the credential file is read only while the cache is empty, and once
\* a record is cached the cache is replaced only by the record a refresh
\* operation built, in the step in which that operation succeeds; never by a
\* record read from the file.
C20_LoadOnlyIntoEmptyCache ==
    [][ /\ \A p \in Procs : (pc[p] = "load" /\ pc'[p] = "loaded") => creds = Null
        /\ (creds # Null /\ creds' # creds) =>
              \E k \in 1 .. Len(ops) :
                  /\ ops[k].phase = "save"
                  /\ ops'[k].phase = "ok"
                  /\ creds' = ops[k].newCred ]_vars

\* C15: first write wins for the credential path. Before any call reached
\* initializeOAuthPath no override is set and no file was read; the first call
\* that reaches it (through getDynamicModels or through the handle's
\* ensureClient / ensureAuthenticated) resolves the override from its own
\* inputs; from then on no step changes the override, whatever the later
\* calls pass; every load reads, and every save writes, only the file at the
\* path resolved from that override.
C15_FirstWriteWins ==
    /\ [](~initialized => (oauthPath = None /\ \A p \in Procs : call[p].kind = "none"))
    /\ [][ /\ initialized => (initialized' /\ oauthPath' = oauthPath)
           /\ (~initialized /\ initialized') =>
                 \E p \in Procs :
                     /\ call'[p].kind \in {"models", "generate"}
                     /\ call[p].kind = "none"
                     /\ call'[p].kind = "generate" => oauthPath' = HandleSettingsPath
                     /\ oauthPath' \in SettingsPaths \cup EnvPaths
           /\ \A p \in Procs : (pc[p] = "load" /\ pc'[p] = "loaded") =>
                 buf'[p] = fs[getCredentialPath(provider, oauthPath)]
           /\ \A path \in Paths : fs'[path] # fs[path] =>
                 path = getCredentialPath(provider, oauthPath) ]_vars

\* C15 witness: getDynamicModels, called first with a custom path in its
\* settings, resolved the override; a doGenerate that passed no path came
\* later, left the override as it was, and has read the file at the custom
\* path, which by then holds a refreshed record that the default path lacks.
C15_Witness ==
    \E p, q \in Procs :
        /\ initialized /\ oauthPath = "~/creds.json"
        /\ call[p].kind = "models"
        /\ call[q].kind = "generate" /\ call[q].ensured
        /\ pc[q] = "loaded"
        /\ buf[q] = fs["/home/creds.json"]
        /\ buf[q].kind = "json" /\ buf[q].obj.access_token = "at1"
        /\ fs[DefaultPath(provider)].obj.access_token = "at0"

\* C17: every doGenerate / doStream invocation on the model handle that
\* issues its API call has, since it was invoked, been through an
\* ensureClient / ensureAuthenticated run (its own, or the one it awaited):
\* the cached record's validity was re-checked before the call.
C17_EnsureBeforeEveryCall ==
    \A p \in Procs :
        (call[p].kind = "generate" /\ call[p].apiCalls >= 1) => call[p].ensured

\* the outcome of the model-list request is a failure: no response, a status
\* that is not successful, a body that is not JSON, has no data array, or has
\* a null entry
ModelsRequestFailed(r) ==
    \/ r = NetworkFailure
    \/ ~r.ok
    \/ r.kind \in {"garbage", "nodata"}
    \/ \E i \in 1 .. Len(r.data) : r.data[i].isNull

\* C18: getDynamicModels never throws, for both providers: every invocation
\* that has ended has returned, with no error. It has returned the empty list
\* when it ended without a response to the model-list request (the load or
\* the refresh failed, or the provider is GeminiCli), and when that request
\* failed or its response was malformed.
C18_DynamicModelsNeverThrows ==
    \A p \in Procs : call[p].kind = "models" =>
        /\ pc[p] # "models_failed"
        /\ call[p].err = NoErr
        /\ pc[p] \in Resting => pc[p] = "models_done"
        /\ pc[p] = "models_done" =>
              /\ call[p].resp = Null => call[p].models = <<>>
              /\ (call[p].resp # Null /\ ModelsRequestFailed(call[p].resp)) =>
                    call[p].models = <<>>
              /\ provider = "gemini" => (call[p].resp = Null /\ call[p].models = <<>>)
        /\ pc[p] # "models_done" => call[p].models = <<>>

\* C18 witness: one getDynamicModels invocation ended after its refresh had
\* failed, another after a model-list response that was not JSON; both
\* returned the empty list.
C18_Witness ==
    \E p, q \in Procs :
        /\ call[p].kind = "models" /\ pc[p] = "models_done"
        /\ call[p].gotOp # 0 /\ ops[call[p].gotOp].phase = "failed"
        /\ call[p].models = <<>>
        /\ call[q].kind = "models" /\ pc[q] = "models_done"
        /\ call[q].resp = ModelsResponse(TRUE, "garbage", <<>>)
        /\ call[q].models = <<>>


(* ---------------- remote OAuth configuration (GeminiCli) ---------------- *)

\* refresh operation k issued a GET of the remote configuration
Fetches(k) == ops[k].phase = "config" \/ ops[k].fetched # "none"

\* C21: GeminiCli fetches the remote OAuth configuration at most once per
\* instance: after a refresh whose fetch succeeded, no later refresh issues
\* another GET and every later POST carries the cached client id and secret;
\* a refresh whose fetch fails fails itself, and the refresh after it fetches
\* again.
C21_ConfigFetchedOnce ==
    provider = "gemini" =>
        \A k \in 1 .. Len(ops) :
            /\ (\E j \in 1 .. k - 1 : ops[j].fetched = "complete") =>
                   /\ ~Fetches(k)
                   /\ ops[k].req # Null =>
                          /\ ops[k].req.client_id = CompleteConfig.oauthClientId
                          /\ ops[k].req.client_secret = CompleteConfig.oauthClientSecret
            /\ ops[k].fetched \in ConfigOutcomes \ {"complete"} =>
                   /\ ops[k].phase = "failed"
                   /\ (k < Len(ops) /\ Truthy(ops[k + 1].cred.refresh_token)) =>
                          Fetches(k + 1)

\* C27: fetchOAuthConfig never returns, and never keeps cached, a
\* configuration that lacks oauthClientId or oauthClientSecret: the cache is
\* empty or complete, and every POST carries a client id and a client secret.
C27_ConfigCompleteOrAbsent ==
    provider = "gemini" =>
        /\ oauthConfig # Null => ConfigUsable(oauthConfig)
        /\ \A k \in 1 .. Len(ops) :
               ops[k].req # Null =>
                   Truthy(ops[k].req.client_id) /\ Truthy(ops[k].req.client_secret)


(* --------------------------- model handles ---------------------------- *)

\* C22: getModelInstance defers authentication. The step that creates the
\* handle leaves the cached record, the in-flight slot, the resolved path, the
\* file system and the request counters unchanged and starts no invocation;
\* the handle starts without a client. Path resolution happens only in a
\* step that starts an invocation (doGenerate / doStream on the handle, or
\* getDynamicModels), and no doGenerate exists before the handle does.
C22_HandleCreationDefersAuth ==
    /\ [](handle = Null => \A p \in Procs : call[p].kind # "generate")
    /\ [][/\ (handle = Null /\ handle' # Null) =>
                /\ handle' = NoHandleClient
                /\ UNCHANGED <<fs, initialized, oauthPath, creds, slot, ops, netCalls,
                               oauthConfig, client, pc, buf, waitOp, call, calls>>
          /\ (initialized' /\ ~initialized) => calls' = calls + 1
          /\ (\E p \in Procs : pc[p] # "load" /\ pc'[p] = "load") => calls' = calls + 1
         ]_vars

\* the handle exists and nothing has been resolved, loaded or refreshed yet;
\* a doGenerate on it can still start the first authentication
C22_Witness ==
    /\ handle = NoHandleClient
    /\ ~initialized /\ oauthPath = None /\ creds = Null /\ slot = 0
    /\ ops = <<>> /\ calls = 0
    /\ ENABLED (\E p \in Procs : StartGenerate(p))


\* the access token the client a doGenerate works with sends: QwenCode's
\* shared _client as ensureClient last wrote it, GeminiCli's per-handle client
ApiKeyInUse ==
    IF provider = "qwen"
        THEN (IF client = Null THEN None ELSE client.apiKey)
        ELSE (IF handle = Null THEN None ELSE handle.apiKey)

\* C24: when callWithRetry retries after a forced refresh, the retried
\* apiCall is sent with the refreshed access token: in the step in which an
\* invocation on a model handle issues its second apiCall, the client it
\* calls through carries the access token of the record just cached.
C24_RetryUsesRefreshedToken ==
    [][\A p \in Procs :
          (call[p].kind = "generate" /\ call[p].apiCalls = 1 /\ call'[p].apiCalls = 2) =>
              ApiKeyInUse' = creds'.access_token]_vars


\* C25: doGenerate / doStream calls that overlap on one handle while its
\* first authentication is in progress all obtain the authenticated client
\* once it succeeds: no invocation on a handle fails with 'Client
\* initialization in progress'.
C25_OverlappingCallsShareClient ==
    \A p \in Procs :
        call[p].kind = "generate" => call[p].err # InitInProgress

\* C28: an authentication failure is not cached in a model handle: every
\* doGenerate / doStream that fails before its first apiCall has itself run
\* ensureClient / ensureAuthenticated, or awaited the one in progress, so a
\* call made after the failure authenticates again.
C28_AuthFailureNotCached ==
    \A p \in Procs :
        (call[p].kind = "generate" /\ pc[p] = "gen_failed"
            /\ call[p].err # InitInProgress) => call[p].ensured


(* ----------------------- rotating refresh tokens ----------------------- *)

\* C26: with refresh tokens that rotate, no refresh request carries a
\* refresh token that an earlier, successfully completed refresh replaced:
\* the POST of an operation never carries the token an earlier successful
\* operation was started with and exchanged for a different one.
C26_NoReplacedRefreshToken ==
    \A k \in 1 .. Len(ops) : \A j \in 1 .. k - 1 :
        (/\ ops[j].phase = "ok"
         /\ ops[j].newCred.refresh_token # ops[j].cred.refresh_token
         /\ ops[k].req # Null) =>
            ops[k].req.refresh_token # ops[j].cred.refresh_token


(* --------------------------- getBaseUrl harness ------------------------ *)

\* the pieces resource_url values are built from: schemes, a host, the
\* version suffix, and the suffix followed by a slash
UrlPieces == {"http://", "https://", "ftp://", "portal.qwen.ai", "/v1", "/v1/"}
UrlInputs == UNION {[1 .. n -> UrlPieces] : n \in 0 .. MaxUrlPieces}

UrlInit ==
    /\ MainInit
    /\ provider = "qwen"
    /\ fs = [path \in Paths |-> Missing]
    /\ fnArgs \in [credentials : {Cred("at0", "rt0", "Bearer", 0, u) : u \in UrlInputs}]
    /\ fnRes = Null

\* getBaseUrl(creds) is called, and called again on a record whose
\* resource_url is the result
ApplyBaseUrl ==
    /\ fnRes = Null
    /\ fnRes' = LET value == getBaseUrl(fnArgs.credentials)
                IN [value |-> value,
                    again |-> getBaseUrl([fnArgs.credentials EXCEPT !.resource_url = value])]
    /\ UNCHANGED <<provider, now, fs, initialized, oauthPath, creds, slot, ops, netCalls,
                   oauthConfig, client, pc, buf, waitOp, call, calls, lastSave, handle,
                   fnArgs>>

UrlNext == ApplyBaseUrl

SpecUrl == UrlInit /\ [][UrlNext]_vars

\* C30: QwenCode's getBaseUrl uses resource_url when the record has one and
\* the fixed default otherwise; "https://" is put in front exactly when the
\* URL starts with neither "http://" nor "https://", "/v1" is put at the end
\* exactly when the URL does not end with it; so the result begins with a
\* scheme, ends with "/v1", and getBaseUrl applied to its own result returns
\* it unchanged.
C30_BaseUrlNormalised ==
    fnRes # Null =>
        LET u == fnArgs.credentials.resource_url
            base == IF u = NoUrl THEN DefaultBaseUrl ELSE u
            hasScheme == base[1] \in {"http://", "https://"}
            hasSuffix == base[Len(base)] = "/v1"
            r == fnRes.value
        IN /\ r = (IF hasScheme THEN <<>> ELSE <<"https://">>) \o base
                    \o (IF hasSuffix THEN <<>> ELSE <<"/v1">>)
           /\ r[1] \in {"http://", "https://"}
           /\ r[Len(r)] = "/v1"
           /\ fnRes.again = r

\* a resource_url without scheme and without "/v1" has been normalised
C30_Witness ==
    /\ fnRes # Null
    /\ fnArgs.credentials.resource_url = <<"portal.qwen.ai">>
    /\ fnRes.value = <<"https://", "portal.qwen.ai", "/v1">>


(* ------------------------------ progress ------------------------------ *)

\* The instance driven by as many invocations as refresh operations are
\* modelled, so that no invocation is held up by the bound on operations
LiveNext ==
    \/ \E p \in Procs, s \in SettingsPaths, e \in EnvPaths :
            calls < MaxRefresh /\ StartEnsure(p, s, e)
    \/ \E p \in Procs : ReadFile(p)
    \/ \E p \in Procs : LoadDone(p)
    \/ \E k \in 1 .. MaxRefresh, o \in ConfigOutcomes : ConfigDone(k, o)
    \/ \E k \in 1 .. MaxRefresh : \E r \in RefreshFailures \cup OkResponses(k) :
            RefreshResponse(k, r)
    \/ \E k \in 1 .. MaxRefresh, saved \in BOOLEAN : SaveDone(k, saved)
    \/ \E p \in Procs : calls < MaxRefresh /\ StartApi(p)
    \/ \E p \in Procs, st \in ApiStatuses : ApiDone(p, st)
    \/ \E p \in Procs, st \in ApiStatuses : RetryDone(p, st)
    \/ Tick

\* every file operation and every HTTP request eventually completes
IOCompletes ==
    /\ \A p \in Procs :
        /\ WF_vars(ReadFile(p))
        /\ WF_vars(LoadDone(p))
        /\ WF_vars(\E st \in ApiStatuses : ApiDone(p, st))
        /\ WF_vars(\E st \in ApiStatuses : RetryDone(p, st))
    /\ \A k \in 1 .. MaxRefresh :
        /\ WF_vars(\E o \in ConfigOutcomes : ConfigDone(k, o))
        /\ WF_vars(\E r \in RefreshFailures \cup OkResponses(k) : RefreshResponse(k, r))
        /\ WF_vars(\E saved \in BOOLEAN : SaveDone(k, saved))

SpecLive == Init /\ [][LiveNext]_vars /\ IOCompletes

\* C29: if every file operation and HTTP request eventually completes, every
\* ensureClient / ensureAuthenticated and callApiWithRetry invocation
\* eventually returns or fails, and every caller awaiting the shared
\* in-flight refresh is released: a caller only ever awaits an operation
\* that is still running, and it stops awaiting.
C29_EveryCallEnds ==
    /\ [](\A p \in Procs : waitOp[p] # 0 => Running(waitOp[p]))
    /\ \A p \in Procs : (pc[p] \notin Resting) ~> (pc[p] \in Resting)
    /\ \A p \in Procs : (waitOp[p] # 0) ~> (waitOp[p] = 0)

\* two invocations awaited one refresh operation and both have ended, with
\* the refreshed record cached
C29_Witness ==
    /\ \A p \in Procs : call[p].gotOp = 1 /\ pc[p] \in Resting /\ waitOp[p] = 0
    /\ ops[1].phase = "ok"
    /\ creds = ops[1].newCred
    /\ slot = 0


(* ------------------- the two providers side by side ------------------- *)

\* One GeminiCli instance and one QwenCode instance receive the same calls
\* and the same outcomes of their I/O, one event at a time. The state
\* variables hold the instance whose turn it is, fnRes holds the other one,
\* fnArgs the event being delivered. GeminiCli moves first; the completion
\* of its configuration GET is an event of its own that QwenCode has no
\* counterpart for.

\* the instance held in the state variables
Instance ==
    [provider |-> provider, now |-> now, fs |-> fs, initialized |-> initialized,
     oauthPath |-> oauthPath, creds |-> creds, slot |-> slot, ops |-> ops,
     netCalls |-> netCalls, oauthConfig |-> oauthConfig, client |-> client, pc |-> pc,
     buf |-> buf, waitOp |-> waitOp, call |-> call, calls |-> calls,
     lastSave |-> lastSave, handle |-> handle]

\* the state variables take the instance inst
Becomes(inst) ==
    /\ provider' = inst.provider /\ now' = inst.now /\ fs' = inst.fs
    /\ initialized' = inst.initialized /\ oauthPath' = inst.oauthPath
    /\ creds' = inst.creds /\ slot' = inst.slot /\ ops' = inst.ops
    /\ netCalls' = inst.netCalls /\ oauthConfig' = inst.oauthConfig
    /\ client' = inst.client /\ pc' = inst.pc /\ buf' = inst.buf
    /\ waitOp' = inst.waitOp /\ call' = inst.call /\ calls' = inst.calls
    /\ lastSave' = inst.lastSave /\ handle' = inst.handle

\* a call or an outcome of I/O
Event(type, p, s, k, r, saved, st) ==
    [type |-> type, p |-> p, s |-> s, k |-> k, r |-> r, saved |-> saved, st |-> st]

NoEvent == Event("none", 0, None, 0, Null, FALSE, 0)

\* the refresh responses and API statuses delivered to both instances
PairResponses(k) ==
    {FullResponse(k),
     [FullResponse(k) EXCEPT !.refresh_token = None, !.token_type = None, !.expires_in = 30],
     ErrorResponse(FALSE)}
PairStatuses == {200, 401}

PairEvents ==
    {Event("StartEnsure", p, s, 0, Null, FALSE, 0) : p \in Procs, s \in SettingsPaths}
    \cup {Event(t, p, None, 0, Null, FALSE, 0) :
             t \in {"ReadFile", "LoadDone", "StartApi"}, p \in Procs}
    \cup {Event("ConfigDone", 0, None, k, Null, FALSE, 0) : k \in 1 .. MaxRefresh}
    \cup UNION {{Event("RefreshResponse", 0, None, k, r, FALSE, 0) : r \in PairResponses(k)} :
                   k \in 1 .. MaxRefresh}
    \cup {Event("SaveDone", 0, None, k, Null, saved, 0) :
             k \in 1 .. MaxRefresh, saved \in BOOLEAN}
    \cup {Event(t, p, None, 0, Null, FALSE, st) :
             t \in {"ApiDone", "RetryDone"}, p \in Procs, st \in PairStatuses}
    \cup {Event("Tick", 0, None, 0, Null, FALSE, 0)}

\* the instance in the state variables takes the step of event ev
Deliver(ev) ==
    \/ ev.type = "StartEnsure" /\ StartEnsure(ev.p, ev.s, None)
    \/ ev.type = "ReadFile" /\ ReadFile(ev.p)
    \/ ev.type = "LoadDone" /\ LoadDone(ev.p)
    \/ ev.type = "ConfigDone" /\ ConfigDone(ev.k, "complete")
    \/ ev.type = "RefreshResponse" /\ RefreshResponse(ev.k, ev.r)
    \/ ev.type = "SaveDone" /\ SaveDone(ev.k, ev.saved)
    \/ ev.type = "StartApi" /\ StartApi(ev.p)
    \/ ev.type = "ApiDone" /\ ApiDone(ev.p, ev.st)
    \/ ev.type = "RetryDone" /\ RetryDone(ev.p, ev.st)
    \/ ev.type = "Tick" /\ Tick

InStep == [phase |-> "sync", ev |-> NoEvent, before |-> Null]

PairInit ==
    /\ MainInit
    /\ provider = "gemini"
    /\ fnRes = [Instance EXCEPT !.provider = "qwen"]
    /\ fnArgs = InStep

\* an event GeminiCli can take is picked
Choose ==
    /\ fnArgs.phase = "sync"
    /\ \E ev \in PairEvents :
        /\ ENABLED Deliver(ev)
        /\ fnArgs' = [phase |-> "first", ev |-> ev, before |-> Instance]
    /\ UNCHANGED <<provider, now, fs, initialized, oauthPath, creds, slot, ops, netCalls,
                   oauthConfig, client, pc, buf, waitOp, call, calls, lastSave, handle,
                   fnRes>>

\* GeminiCli takes the event
StepFirst ==
    /\ fnArgs.phase = "first"
    /\ Instance = fnArgs.before
    /\ Deliver(fnArgs.ev)

\* GeminiCli has taken the event: it is QwenCode's turn, unless the event was
\* the completion of the configuration GET
HandOver ==
    /\ fnArgs.phase = "first"
    /\ Instance # fnArgs.before
    /\ IF fnArgs.ev.type = "ConfigDone"
         THEN /\ fnArgs' = InStep
              /\ UNCHANGED <<provider, now, fs, initialized, oauthPath, creds, slot, ops,
                             netCalls, oauthConfig, client, pc, buf, waitOp, call, calls,
                             lastSave, handle, fnRes>>
         ELSE /\ Becomes(fnRes)
              /\ fnRes' = Instance
              /\ fnArgs' = [phase |-> "second", ev |-> fnArgs.ev, before |-> fnRes]

\* QwenCode takes the same event
StepSecond ==
    /\ fnArgs.phase = "second"
    /\ Instance = fnArgs.before
    /\ Deliver(fnArgs.ev)

\* both have taken the event
Rejoin ==
    /\ fnArgs.phase = "second"
    /\ Instance # fnArgs.before
    /\ Becomes(fnRes)
    /\ fnRes' = Instance
    /\ fnArgs' = InStep

PairNext == Choose \/ StepFirst \/ HandOver \/ StepSecond \/ Rejoin

SpecPair == PairInit /\ [][PairNext]_vars

\* what the two lifecycles have in common: a, the GeminiCli instance,
\* matches b, the QwenCode instance. An operation of a that still fetches
\* the configuration corresponds to one of b whose POST is under way; the
\* default credential file of the one corresponds to that of the other.
SamePhase(pa, pb) == pb = (IF pa = "config" THEN "post" ELSE pa)

SameLifecycle(a, b) ==
    /\ a.creds = b.creds /\ a.slot = b.slot
    /\ a.initialized = b.initialized /\ a.oauthPath = b.oauthPath
    /\ a.pc = b.pc /\ a.waitOp = b.waitOp /\ a.call = b.call /\ a.calls = b.calls
    /\ a.now = b.now /\ a.buf = b.buf /\ a.lastSave = b.lastSave
    /\ Len(a.ops) = Len(b.ops)
    /\ \A k \in 1 .. Len(a.ops) :
        /\ SamePhase(a.ops[k].phase, b.ops[k].phase)
        /\ a.ops[k].leader = b.ops[k].leader /\ a.ops[k].cred = b.ops[k].cred
        /\ a.ops[k].resp = b.ops[k].resp /\ a.ops[k].newCred = b.ops[k].newCred
        /\ a.ops[k].req # Null => a.ops[k].req.refresh_token = b.ops[k].req.refresh_token
    /\ b.netCalls = a.netCalls + Cardinality({k \in 1 .. Len(a.ops) : a.ops[k].phase = "config"})
    /\ a.fs[DefaultPath(a.provider)] = b.fs[DefaultPath(b.provider)]
    /\ \A path \in Paths \ {DefaultPath("qwen"), DefaultPath("gemini")} :
            a.fs[path] = b.fs[path]

====
